---- MODULE Spec2Model ----
(***************************************************************************)
(* Model of instagram-hub: the session manager (instagram_manager.py), the *)
(* activity monitor (instagram_monitor.py), the event sink                 *)
(* (webhook_manager.py) and the routes of main.py that drive them.         *)
(*                                                                         *)
(* The coroutines of InstagramManager contain no await, so each of them is *)
(* one atomic step of the event loop.  The remote account client, the     *)
(* store and the webhook receiver are the environment: every call to them  *)
(* takes its outcome from a small set.                                     *)
(***************************************************************************)
EXTENDS Integers, Sequences, FiniteSets, TLC

\* ------------------------------------------------------------------ bounds
MaxHandles == 2   \* client handles (and credential blobs) ever created
MaxTasks == 2     \* monitoring tasks ever created
MaxItems == 1     \* remote messages and comments ever received
MaxCalls == 2     \* calls of log_event (event ids ever generated)
MaxTime == 3      \* the clock stops after this many ticks
NoveltyItems == 3 \* items the remote holds in SpecNovelty
TickSeconds == 120  \* length of one tick of the model's clock, in seconds

\* ------------------------------------------------------- program constants
InterCheckSleep == 10   \* await asyncio.sleep(10)
CycleSleep == 120       \* await asyncio.sleep(120)
ThreadWindow == 2       \* threads[:2]
MessageWindow == 2      \* messages[:2]
CommentWindow == 3      \* comments[:3]
DefaultLimit == 50      \* get_webhook_events(limit: int = 50, ...)

\* --------------------------------------------------------------- universes
AccountSeq == <<"alice", "bob">>
Accounts == {AccountSeq[i] : i \in 1..Len(AccountSeq)}

\* What the remote client does with the credentials of a fresh login.
LoginOutcomes == {"ok", "ok_no_profile", "info_raises", "bad_password",
                  "challenge", "client_error", "error"}
\* Outcomes of Client.account_info: a profile, nothing, or an exception.
InfoOutcomes == {"ok", "none", "raise"}
\* Outcomes of Client.logout: it returns, or raises.
LogoutOutcomes == {"ok", "raise"}
\* What the store does during one operation: everything works, SessionLocal()
\* raises, the queries raise (and so do the commits), or only commits raise.
DbModes == {"up", "open_fails", "query_fails", "commit_fails"}

\* Users who write to the monitored accounts; a direct thread is named after
\* the peer, the one media item of an account is "post".
Peers == {"carol", "dave"}
\* How a POST to the webhook receiver ends (webhook_manager.py:39-56).
PostOutcomes == {"200", "204", "500", "timeout", "unreachable"}
\* How the remote fetches of one step of a task end: all succeed, the fetch
\* of the list (threads, media) raises, every fetch of the items of a thread
\* (of the media item) raises, or only the first such fetch of the step does.
FetchOutcomes == {"ok", "list_raises", "items_raise", "first_raises"}

NoRow == [exists |-> FALSE, active |-> FALSE, blob |-> 0]
NoClient == [id |-> 0, blob |-> 0]

VARIABLES
    clients,   \* InstagramManager.clients: account -> handle (NoClient: absent)
    store,     \* table instagram_sessions: account -> row (NoRow: no row)
    nextId,    \* next fresh handle id; a fresh login's blob is named after it
    phase,     \* "boot" before the lifespan startup ran, then "serving"
    last,      \* observation of the operation that ran last (not program state)
    monitor,   \* main.instagram_monitor is set (not None)
    monitoring,             \* InstagramMonitor.monitoring
    monitoring_tasks,       \* account -> id of its task (0: no entry)
    last_check_timestamps,  \* account -> checkpoint (-1: no entry)
    tasks,     \* the asyncio tasks ever created: Seq of task records
    now,       \* datetime.utcnow(), in ticks
    inbox,     \* the remote messages and comments: Seq of items, oldest first
    events,    \* table webhook_events: Seq of rows, oldest first
    calls,     \* the calls of log_event so far; call i generated event id i
    posts,     \* the POSTs made to the webhook receiver: Seq of [id, answer]
    webhook_url,  \* WEBHOOK_URL is configured
    API_KEY,   \* main.API_KEY, the shared secret ("": unset or empty)
    api_key_header,  \* the X-API-Key header of the request being served
    call       \* a log_event call made directly (not by a task), see SpecSink

sessVars == <<clients, store, nextId, phase>>
monVars == <<monitor, monitoring, monitoring_tasks, last_check_timestamps, tasks>>
envVars == <<now, inbox>>
cfgVars == <<webhook_url, API_KEY, api_key_header>>
sinkVars == <<events, calls, posts, cfgVars, call>>
vars == <<clients, store, nextId, phase, last, monitor, monitoring,
          monitoring_tasks, last_check_timestamps, tasks, now, inbox,
          events, calls, posts, webhook_url, API_KEY, api_key_header, call>>

\* The shared secrets API_KEY may hold and the X-API-Key headers a request may
\* carry ("absent": no header, api_key_header(auto_error=False) gives None).
Keys == {"", "k1"}
Headers == {"absent", "k1", "k2"}

\* No shared secret is configured: every request reaches its route.
Unsecured == API_KEY = "" /\ api_key_header = "absent"

\* ------------------------------------------------------------ the registry
add_client(cl, username, client) == [cl EXCEPT ![username] = client]

get_client(cl, username) == cl[username]

remove_client(cl, username) ==
    IF cl[username] # NoClient THEN [cl EXCEPT ![username] = NoClient] ELSE cl

get_all_usernames(cl) == {a \in Accounts : cl[a] # NoClient}

\* ---------------------------------------------------------------- the store
\* db.commit(): whether a commit of this operation succeeds.
CommitOk(dbm) == dbm = "up"

\* The query of login without its filter on is_active.
QueryAnyRow(st, username, dbm) ==
    IF dbm = "query_fails" \/ ~st[username].exists THEN NoRow ELSE st[username]

\* db.query(InstagramSession).filter(username == u, is_active == True).first()
QueryActive(st, username, dbm) ==
    IF dbm = "query_fails" \/ ~st[username].exists \/ ~st[username].active
    THEN NoRow
    ELSE st[username]

\* existing_session.is_active = False; db.commit()   (swallowed on failure)
MarkInactive(st, username, dbm) ==
    IF CommitOk(dbm) THEN [st EXCEPT ![username].active = FALSE] ELSE st

\* The update-or-create of login: an UPDATE of the row read before, else an
\* INSERT, whose commit violates the primary key when a row is already there.
SaveSession(st, username, existing, blob, dbm) ==
    IF ~CommitOk(dbm) THEN st
    ELSE IF existing.exists
         THEN [st EXCEPT ![username] = [exists |-> TRUE, active |-> TRUE, blob |-> blob]]
         ELSE IF st[username].exists
              THEN st
              ELSE [st EXCEPT ![username] = [exists |-> TRUE, active |-> TRUE, blob |-> blob]]

\* ------------------------------------------------- InstagramManager.login
\* What login returns (success, message), the state it leaves, the number of
\* calls of the remote login operation it made and the handle it registered.
LoginResult(success, message, cl, st, id, n, handle) ==
    [success |-> success, message |-> message, clients |-> cl, store |-> st,
     nextId |-> id, loginCalls |-> n, handle |-> handle]

\* A fresh login that drops the account's registered handle when it fails.
FreshLogin_dropping(cl, st, id, username, existing, remote, dbm) ==
    IF remote \in {"ok", "ok_no_profile"}
    THEN LoginResult(TRUE, "Login successful",
                     add_client(cl, username, [id |-> id, blob |-> id]),
                     SaveSession(st, username, existing, id, dbm),
                     id + 1, 1, id)
    ELSE LoginResult(FALSE,
                     IF remote = "bad_password" THEN "Invalid username or password"
                     ELSE IF remote = "challenge" THEN "Challenge required"
                     ELSE IF remote \in {"client_error", "info_raises"}
                          THEN "Instagram API error"
                     ELSE "Login failed",
                     remove_client(cl, username), st, id, 1, 0)

\* The fresh login (from "client = Client()" on).  remote is what the remote
\* client does with the credentials: client.login raises ("bad_password",
\* "challenge", "client_error", "error"), or succeeds and account_info then
\* returns the profile ("ok"), returns nothing ("ok_no_profile") or raises a
\* client error ("info_raises").
FreshLogin(cl, st, id, username, existing, remote, dbm) ==
    IF remote \in {"ok", "ok_no_profile"}
    THEN LoginResult(TRUE, "Login successful",
                     add_client(cl, username, [id |-> id, blob |-> id]),
                     SaveSession(st, username, existing, id, dbm),
                     id + 1, 1, id)
    ELSE IF remote = "bad_password"
    THEN LoginResult(FALSE, "Invalid username or password", cl, st, id, 1, 0)
    ELSE IF remote = "challenge"
    THEN LoginResult(FALSE, "Challenge required", cl, st, id, 1, 0)
    ELSE IF remote \in {"client_error", "info_raises"}
    THEN LoginResult(FALSE, "Instagram API error", cl, st, id, 1, 0)
    ELSE LoginResult(FALSE, "Login failed", cl, st, id, 1, 0)

\* login with the registration of the restored handle left out.
login_reuse_unregistered(cl, st, id, username, remote, probe, dbm) ==
    LET existing == QueryActive(st, username, dbm)
    IN  IF dbm = "open_fails"
        THEN LoginResult(FALSE, "Internal server error", cl, st, id, 0, 0)
        ELSE IF existing.exists /\ probe = "ok"
        THEN LoginResult(TRUE, "Using existing session", cl, st, id + 1, 0, id)
        ELSE FreshLogin(cl, IF existing.exists /\ probe = "raise"
                            THEN MarkInactive(st, username, dbm) ELSE st,
                        id, username, existing, remote, dbm)

\* login(username, password): probe is the outcome of account_info on the
\* handle restored from the stored session (used only when one is found).
login(cl, st, id, username, remote, probe, dbm) ==
    LET existing == QueryActive(st, username, dbm)
    IN  IF dbm = "open_fails"
        THEN LoginResult(FALSE, "Internal server error", cl, st, id, 0, 0)
        ELSE IF ~existing.exists
        THEN FreshLogin(cl, st, id, username, existing, remote, dbm)
        ELSE IF probe = "ok"
        THEN LoginResult(TRUE, "Using existing session",
                         add_client(cl, username, [id |-> id, blob |-> existing.blob]),
                         st, id + 1, 0, id)
        ELSE IF probe = "none"
        THEN FreshLogin(cl, st, id, username, existing, remote, dbm)
        ELSE FreshLogin(cl, MarkInactive(st, username, dbm), id, username,
                        existing, remote, dbm)

\* ------------------------------------------------ InstagramManager.logout
\* logout that reports a failure when the account has no registered client.
logout_needs_client(cl, st, username, bye, dbm) ==
    [success |-> cl[username] # NoClient,
     message |-> IF cl[username] # NoClient THEN "Logged out" ELSE "Logout failed",
     clients |-> remove_client(cl, username),
     store   |-> IF dbm = "up" /\ st[username].exists
                 THEN [st EXCEPT ![username].active = FALSE]
                 ELSE st]

\* logout that gives up when the remote logout call raises.
logout_remote_fatal(cl, st, username, bye, dbm) ==
    IF cl[username] # NoClient /\ bye = "raise"
    THEN [success |-> FALSE, message |-> "Logout failed", clients |-> cl,
          store |-> st]
    ELSE [success |-> TRUE, message |-> "Logged out",
          clients |-> remove_client(cl, username),
          store   |-> IF dbm = "up" /\ st[username].exists
                      THEN [st EXCEPT ![username].active = FALSE]
                      ELSE st]

\* logout(username).  bye is the outcome of the remote logout call, made when
\* the account has a registered client: when it raises the exception is
\* swallowed, so it does not show in the result.  The messages of login and
\* logout are modelled by their fixed part.
logout(cl, st, username, bye, dbm) ==
    [success |-> TRUE, message |-> "Logged out",
     clients |-> remove_client(cl, username),
     store   |-> IF dbm = "up" /\ st[username].exists
                 THEN [st EXCEPT ![username].active = FALSE]
                 ELSE st]

\* -------------------------------- InstagramManager.load_existing_sessions
\* The rows the query returns are visited in the order of AccountSeq; probeOf
\* gives the outcome of the verification of each account's restored handle.
RECURSIVE RestoreFrom(_, _, _, _, _, _, _)
RestoreFrom(i, cl, st, id, count, probeOf, dbm) ==
    IF i > Len(AccountSeq)
    THEN [clients |-> cl, store |-> st, nextId |-> id, count |-> count]
    ELSE LET u == AccountSeq[i]
         IN  IF ~(st[u].exists /\ st[u].active)
             THEN RestoreFrom(i + 1, cl, st, id, count, probeOf, dbm)
             ELSE IF probeOf[u] = "ok"
             THEN RestoreFrom(i + 1,
                              add_client(cl, u, [id |-> id, blob |-> st[u].blob]),
                              st, id + 1, count + 1, probeOf, dbm)
             ELSE RestoreFrom(i + 1, cl, MarkInactive(st, u, dbm), id, count,
                              probeOf, dbm)

\* load_existing_sessions that gives up at the first session that fails.
RECURSIVE RestoreUntilFailure(_, _, _, _, _, _, _)
RestoreUntilFailure(i, cl, st, id, count, probeOf, dbm) ==
    IF i > Len(AccountSeq)
    THEN [clients |-> cl, store |-> st, nextId |-> id, count |-> count]
    ELSE LET u == AccountSeq[i]
         IN  IF ~(st[u].exists /\ st[u].active)
             THEN RestoreUntilFailure(i + 1, cl, st, id, count, probeOf, dbm)
             ELSE IF probeOf[u] = "ok"
             THEN RestoreUntilFailure(i + 1,
                     add_client(cl, u, [id |-> id, blob |-> st[u].blob]),
                     st, id + 1, count + 1, probeOf, dbm)
             ELSE [clients |-> cl, store |-> MarkInactive(st, u, dbm),
                   nextId |-> id, count |-> count]

load_existing_sessions_aborting(cl, st, id, probeOf, dbm) ==
    IF dbm \in {"open_fails", "query_fails"}
    THEN [clients |-> cl, store |-> st, nextId |-> id, count |-> 0]
    ELSE RestoreUntilFailure(1, cl, st, id, 0, probeOf, dbm)

load_existing_sessions(cl, st, id, probeOf, dbm) ==
    IF dbm \in {"open_fails", "query_fails"}
    THEN [clients |-> cl, store |-> st, nextId |-> id, count |-> 0]
    ELSE RestoreFrom(1, cl, st, id, 0, probeOf, dbm)

\* ============================================================ EventSink
\* The sink's part of the state as one value: k.events, k.calls, k.posts.
Min(a, b) == IF a < b THEN a ELSE b

Take(seq, n) == SubSeq(seq, 1, Min(n, Len(seq)))

RECURSIVE Reverse(_)
Reverse(seq) == IF seq = << >> THEN << >> ELSE Append(Reverse(Tail(seq)), Head(seq))

\* send_webhook that takes every answer of the receiver for a success.
send_webhook_any_answer(outcome) == outcome \in {"200", "204", "500"}

\* WebhookManager.send_webhook, its answer: True only for status 200.
send_webhook(outcome) == outcome = "200"

\* log_event that sends the webhook whether or not the insert was committed.
LogBegin_posting_first(k, username, event_type, sender, item, who, dbm, url) ==
    LET id == Len(k.calls) + 1
        k0 == [k EXCEPT !.calls = Append(@,
                  [username |-> username, event_type |-> event_type,
                   item |-> item, task |-> who.task, cp |-> who.cp,
                   raised |-> (dbm = "open_fails")])]
        row == [id |-> id, username |-> username, event_type |-> event_type,
                sender |-> sender, item |-> item,
                processed |-> FALSE, webhook_sent |-> FALSE]
        k1 == [k0 EXCEPT !.events = Append(@, row)]
    IN  IF dbm = "open_fails"
        THEN [k |-> k0, status |-> "raised", id |-> id, db |-> "unbound"]
        ELSE IF ~CommitOk(dbm) /\ ~url
        THEN [k |-> k0, status |-> "returned", id |-> id, db |-> "closed"]
        ELSE IF ~CommitOk(dbm)
        THEN [k |-> [k0 EXCEPT !.posts = Append(@, [id |-> id, answer |-> "pending"])],
              status |-> "posting", id |-> id, db |-> "open"]
        ELSE IF ~url
        THEN [k |-> k1, status |-> "returned", id |-> id, db |-> "closed"]
        ELSE [k |-> [k1 EXCEPT !.posts = Append(@, [id |-> id, answer |-> "pending"])],
              status |-> "posting", id |-> id, db |-> "open"]

\* WebhookManager.log_event up to the POST.  who = [task, cp] says which task
\* calls and the checkpoint it compared against; it is recorded in k.calls
\* and nowhere else.  The result's status:
\*   "raised"   SessionLocal() raised: the finally clause closes a db that was
\*              never bound, and that error leaves log_event;
\*   "returned" the event id was returned (insert failed, or no webhook URL);
\*   "posting"  the row is committed and the POST is in flight.
\* The result's db is the store handle of the call at that point: "unbound"
\* (SessionLocal() raised, there is none), "open" (the POST is awaited inside
\* the try block that opened it) or "closed" (the finally clause has run).
LogBegin(k, username, event_type, sender, item, who, dbm, url) ==
    LET id == Len(k.calls) + 1
        k0 == [k EXCEPT !.calls = Append(@,
                  [username |-> username, event_type |-> event_type,
                   item |-> item, task |-> who.task, cp |-> who.cp,
                   raised |-> (dbm = "open_fails")])]
        row == [id |-> id, username |-> username, event_type |-> event_type,
                sender |-> sender, item |-> item,
                processed |-> FALSE, webhook_sent |-> FALSE]
        k1 == [k0 EXCEPT !.events = Append(@, row)]
    IN  IF dbm = "open_fails"
        THEN [k |-> k0, status |-> "raised", id |-> id, db |-> "unbound"]
        ELSE IF ~CommitOk(dbm)
        THEN [k |-> k0, status |-> "returned", id |-> id, db |-> "closed"]
        ELSE IF ~url
        THEN [k |-> k1, status |-> "returned", id |-> id, db |-> "closed"]
        ELSE [k |-> [k1 EXCEPT !.posts = Append(@, [id |-> id, answer |-> "pending"])],
              status |-> "posting", id |-> id, db |-> "open"]

\* log_event that posts an event once more when its POST has failed.
LogFinish_retrying(k, id, outcome, dbm) ==
    LET answered == [k EXCEPT !.posts =
                        [i \in DOMAIN @ |->
                            IF @[i].id = id THEN [@[i] EXCEPT !.answer = outcome]
                            ELSE @[i]]]
    IN  IF send_webhook(outcome) THEN answered
        ELSE [answered EXCEPT !.posts = Append(@, [id |-> id, answer |-> "pending"])]

\* log_event from the answer of the POST on: webhook_sent is updated and
\* committed (a failing commit is swallowed), the event id is returned.
LogFinish(k, id, outcome, dbm) ==
    LET answered == [k EXCEPT !.posts =
                        [i \in DOMAIN @ |->
                            IF @[i].id = id THEN [@[i] EXCEPT !.answer = outcome]
                            ELSE @[i]]]
    IN  IF CommitOk(dbm)
        THEN [answered EXCEPT !.events =
                 [i \in DOMAIN @ |->
                     IF @[i].id = id
                     THEN [@[i] EXCEPT !.webhook_sent = send_webhook(outcome)]
                     ELSE @[i]]]
        ELSE answered

\* main.get_webhook_events(limit, processed): newest first, at most limit rows;
\* processed is "any" (None), "true" or "false".
get_webhook_events(evs, limit, processed) ==
    LET hit(e) == \/ processed = "any"
                  \/ processed = "true" /\ e.processed
                  \/ processed = "false" /\ ~e.processed
        found == SelectSeq(evs, hit)
    IN  [events |-> Take(Reverse(found), limit), total_count |-> Len(found)]

\* main.mark_event_processed(event_id)
mark_event_processed(evs, id) ==
    [i \in DOMAIN evs |->
        IF evs[i].id = id THEN [evs[i] EXCEPT !.processed = TRUE] ELSE evs[i]]

\* ====================================================== InstagramMonitor
\* Seconds to ticks: a sleep lasts at least its length, rounded up.
Ticks(seconds) == (seconds + TickSeconds - 1) \div TickSeconds

\* A task: pc is the await it is suspended in ("created": not yet run;
\* "done", "cancelled": ended).  Three fields are observations: scanned (the
\* items fetched by its current check), failed (the threads, or the media
\* item, whose fetch raised in its current check) and checked (the time its
\* last message check began, -1: none yet).
NoTask == [user |-> "", client |-> 0, pc |-> "done", wake |-> 0,
           items |-> << >>, threads |-> << >>, ev |-> 0, scanned |-> {},
           failed |-> {}, checked |-> -1]

\* client.direct_messages(thread)[:2] and client.media_comments(media)[:3]:
\* the newest items of one thread of an account, newest first.
RECURSIVE NewestFirst(_, _, _, _)
NewestFirst(box, i, username, thread) ==
    IF i = 0 THEN << >>
    ELSE IF box[i].to = username /\ box[i].thread = thread
         THEN <<i>> \o NewestFirst(box, i - 1, username, thread)
         ELSE NewestFirst(box, i - 1, username, thread)

Window(box, username, thread) ==
    Take(NewestFirst(box, Len(box), username, thread),
         IF thread = "post" THEN CommentWindow ELSE MessageWindow)

\* client.direct_threads()[:2]: the threads of an account, the one with the
\* newest message first.
RECURSIVE ThreadsNewestFirst(_, _, _, _)
ThreadsNewestFirst(box, i, username, seen) ==
    IF i = 0 THEN << >>
    ELSE IF box[i].to = username /\ box[i].thread # "post" /\ box[i].thread \notin seen
         THEN <<box[i].thread>>
              \o ThreadsNewestFirst(box, i - 1, username, seen \cup {box[i].thread})
         ELSE ThreadsNewestFirst(box, i - 1, username, seen)

direct_threads(box, username) ==
    Take(ThreadsNewestFirst(box, Len(box), username, {}), ThreadWindow)

SeqToSet(seq) == {seq[i] : i \in DOMAIN seq}

\* The novelty test without its strictness.
IsNewOrEqual(ts, cp) == ts >= cp

\* message_time > last_check, comment_time > last_check
IsNew(ts, cp) == ts > cp

\* A check that gives up at the first thread that raises.
OnThreadError_break(rest) == << >>

\* except Exception: ... continue -- after an exception in one thread (media
\* item) the loop goes on with the threads that are left.
OnThreadError(rest) == rest

\* The loops of _check_messages and _check_comments from one item on, until
\* the check is finished or a POST is in flight.  items is the rest of the
\* thread (media item) being read, threads the threads still to read, cp the
\* checkpoint, scanned the items fetched so far in this check, failed the
\* threads whose fetch raised so far in this check.
RECURSIVE Scan(_, _, _, _, _, _, _, _, _, _)
Scan(k, box, t, username, items, threads, scanned, failed, cp, env) ==
    IF items = << >>
    THEN IF threads = << >>
         THEN [k |-> k, status |-> "finished", items |-> << >>,
               threads |-> << >>, ev |-> 0, scanned |-> scanned,
               failed |-> failed]
         ELSE IF env.fetch \in {"items_raise", "first_raises"}
              THEN Scan(k, box, t, username, << >>, OnThreadError(Tail(threads)),
                        scanned, failed \cup {Head(threads)}, cp,
                        IF env.fetch = "first_raises"
                        THEN [env EXCEPT !.fetch = "ok"] ELSE env)
              ELSE LET w == Window(box, username, Head(threads))
                   IN  IF w = << >>
                       THEN Scan(k, box, t, username, << >>, Tail(threads),
                                 scanned, failed, cp, env)
                       ELSE Scan(k, box, t, username, w, Tail(threads),
                                 scanned \cup SeqToSet(w), failed, cp, env)
    ELSE LET m == box[Head(items)]
         IN  IF m.author = username
             THEN Scan(k, box, t, username, Tail(items), threads, scanned, failed, cp, env)
             ELSE IF IsNew(m.ts, cp)
             THEN LET r == LogBegin(k, username,
                                    IF m.thread = "post" THEN "new_comment"
                                                         ELSE "new_message",
                                    m.author, Head(items),
                                    [task |-> t, cp |-> cp], env.dbm, env.url)
                  IN  IF r.status = "posting"
                      THEN [k |-> r.k, status |-> "posting", items |-> Tail(items),
                            threads |-> threads, ev |-> r.id, scanned |-> scanned,
                            failed |-> failed]
                      ELSE IF r.status = "raised"
                      THEN Scan(r.k, box, t, username, << >>, OnThreadError(threads),
                                scanned, failed, cp, env)
                      ELSE Scan(r.k, box, t, username, Tail(items), threads,
                                scanned, failed, cp, env)
             ELSE Scan(k, box, t, username, Tail(items), threads, scanned, failed, cp, env)

Alive(task) == task.pc \notin {"done", "cancelled"}

\* The monitor's maps as one value: m.monitoring, m.monitoring_tasks, m.tasks.
NewTask(username) == [NoTask EXCEPT !.user = username, !.pc = "created"]

\* task.cancel(): CancelledError is raised at the await the task is suspended
\* in (or before its first step); no except clause of the task catches it, so
\* the task runs no further statement of the program.
\* task.cancel() on a task that catches the CancelledError and goes on.
cancel_caught(task) == task

cancel(task) ==
    IF task.pc = "done" THEN task
    ELSE [NoTask EXCEPT !.user = task.user, !.pc = "cancelled"]

\* start_user_monitoring without its test for a task that is already there.
start_user_monitoring_respawning(m, username) ==
    [m EXCEPT !.tasks = Append(@, NewTask(username)),
              !.monitoring_tasks[username] = Len(m.tasks) + 1]

start_user_monitoring(m, username) ==
    IF m.monitoring_tasks[username] # 0
    THEN m
    ELSE [m EXCEPT !.tasks = Append(@, NewTask(username)),
                   !.monitoring_tasks[username] = Len(m.tasks) + 1]

\* stop_user_monitoring that forgets the task: the entry is deleted, the task
\* is not cancelled.
stop_user_monitoring_uncancelled(m, username) ==
    [m EXCEPT !.monitoring_tasks[username] = 0]

\* stop_user_monitoring that cancels the task of every account.
stop_user_monitoring_sweeping(m, username) ==
    [m EXCEPT !.tasks = [t \in DOMAIN @ |->
                            IF \E a \in Accounts : m.monitoring_tasks[a] = t
                            THEN cancel(@[t]) ELSE @[t]],
              !.monitoring_tasks = [a \in Accounts |-> 0]]

stop_user_monitoring(m, username) ==
    IF m.monitoring_tasks[username] # 0
    THEN [m EXCEPT !.tasks[m.monitoring_tasks[username]] = cancel(@),
                   !.monitoring_tasks[username] = 0]
    ELSE m

RECURSIVE StartEach(_, _, _)
StartEach(m, cl, i) ==
    IF i > Len(AccountSeq) THEN m
    ELSE IF AccountSeq[i] \in get_all_usernames(cl)
         THEN StartEach(start_user_monitoring(m, AccountSeq[i]), cl, i + 1)
         ELSE StartEach(m, cl, i + 1)

start_monitoring(m, cl) ==
    IF m.monitoring THEN m
    ELSE StartEach([m EXCEPT !.monitoring = TRUE], cl, 1)

stop_monitoring(m) ==
    [m EXCEPT !.monitoring = FALSE,
              !.tasks = [t \in DOMAIN @ |->
                            IF \E a \in Accounts : m.monitoring_tasks[a] = t
                            THEN cancel(@[t]) ELSE @[t]],
              !.monitoring_tasks = [a \in Accounts |-> 0]]

get_monitoring_status(m, lc) ==
    [monitoring |-> m.monitoring,
     active_monitors |-> {a \in Accounts : m.monitoring_tasks[a] # 0},
     last_checks |-> {a \in Accounts : lc[a] # -1}]

\* last_check_timestamps.get(username, utcnow() - timedelta(minutes=10))
Checkpoint(lc, username, clock) ==
    IF lc[username] = -1 THEN clock - Ticks(600) ELSE lc[username]

\* The end of a check that never advances the checkpoint.
AfterScan_stale(task, lc, r, kind, clock) ==
    IF r.status = "posting"
    THEN [task |-> [task EXCEPT !.pc = IF kind = "msg" THEN "msg_post" ELSE "cmt_post",
                                !.items = r.items, !.threads = r.threads,
                                !.ev = r.ev, !.scanned = r.scanned,
                                !.failed = r.failed],
          lc |-> lc, k |-> r.k]
    ELSE IF kind = "msg"
    THEN [task |-> [task EXCEPT !.pc = "sleep_short",
                                !.wake = clock + Ticks(InterCheckSleep),
                                !.items = << >>, !.threads = << >>, !.ev = 0,
                                !.scanned = r.scanned, !.failed = r.failed],
          lc |-> lc, k |-> r.k]
    ELSE [task |-> [task EXCEPT !.pc = "sleep_long",
                                !.wake = clock + Ticks(CycleSleep),
                                !.items = << >>, !.threads = << >>, !.ev = 0,
                                !.scanned = r.scanned, !.failed = r.failed],
          lc |-> lc, k |-> r.k]

\* What a task does once a check has come to a POST or to its end: r is the
\* result of Scan, kind "msg" or "cmt".  After the comment check the
\* checkpoint is advanced; each check is followed by its sleep.
AfterScan(task, lc, r, kind, clock) ==
    IF r.status = "posting"
    THEN [task |-> [task EXCEPT !.pc = IF kind = "msg" THEN "msg_post" ELSE "cmt_post",
                                !.items = r.items, !.threads = r.threads,
                                !.ev = r.ev, !.scanned = r.scanned,
                                !.failed = r.failed],
          lc |-> lc, k |-> r.k]
    ELSE IF kind = "msg"
    THEN [task |-> [task EXCEPT !.pc = "sleep_short",
                                !.wake = clock + Ticks(InterCheckSleep),
                                !.items = << >>, !.threads = << >>, !.ev = 0,
                                !.scanned = r.scanned, !.failed = r.failed],
          lc |-> lc, k |-> r.k]
    ELSE [task |-> [task EXCEPT !.pc = "sleep_long",
                                !.wake = clock + Ticks(CycleSleep),
                                !.items = << >>, !.threads = << >>, !.ev = 0,
                                !.scanned = r.scanned, !.failed = r.failed],
          lc |-> [lc EXCEPT ![task.user] = clock], k |-> r.k]

Finished(k) == [k |-> k, status |-> "finished", items |-> << >>,
                threads |-> << >>, ev |-> 0, scanned |-> {}, failed |-> {}]

\* _check_messages that lets the exception of the thread list escape: the
\* task ends.
check_messages_fatal(k, box, t, task, lc, env, clock) ==
    IF env.fetch = "list_raises"
    THEN [task |-> [NoTask EXCEPT !.user = task.user], lc |-> lc, k |-> k]
    ELSE AfterScan(task, lc,
                   Scan(k, box, t, task.user, << >>, direct_threads(box, task.user),
                        {}, {}, Checkpoint(lc, task.user, clock), env),
                   "msg", clock)

\* _check_messages(username, client) from its start.
check_messages(k, box, t, task, lc, env, clock) ==
    AfterScan(task, lc,
              IF env.fetch = "list_raises" THEN Finished(k)
              ELSE Scan(k, box, t, task.user, << >>, direct_threads(box, task.user),
                        {}, {}, Checkpoint(lc, task.user, clock), env),
              "msg", clock)

\* _check_comments(username, client) from its start: the one media item.
check_comments(k, box, t, task, lc, env, clock) ==
    AfterScan(task, lc,
              IF env.fetch = "list_raises" THEN Finished(k)
              ELSE Scan(k, box, t, task.user, << >>, <<"post">>,
                        {}, {}, Checkpoint(lc, task.user, clock), env),
              "cmt", clock)

\* The head of the while loop of _monitor_user: another cycle, or the cleanup
\* and the end of the task.  The result also carries the task map.
LoopHead(k, box, t, task, m, cl, lc, env, clock) ==
    IF m.monitoring /\ task.user \in get_all_usernames(cl)
    THEN LET r == check_messages(k, box, t, [task EXCEPT !.checked = clock],
                                 lc, env, clock)
         IN  [task |-> r.task, lc |-> r.lc, k |-> r.k, map |-> m.monitoring_tasks]
    ELSE [task |-> [NoTask EXCEPT !.user = task.user], lc |-> lc, k |-> k,
          map |-> [m.monitoring_tasks EXCEPT ![task.user] = 0]]

\* _monitor_user(username) from its first statement.
monitor_user(k, box, t, task, m, cl, lc, env, clock) ==
    IF get_client(cl, task.user) = NoClient
    THEN [task |-> [NoTask EXCEPT !.user = task.user], lc |-> lc, k |-> k,
          map |-> m.monitoring_tasks]
    ELSE LoopHead(k, box, t,
                  [task EXCEPT !.client = get_client(cl, task.user).id],
                  m, cl, [lc EXCEPT ![task.user] = clock], env, clock)

\* ------------------------------------------------------------ observations
ActiveRows(st) == {a \in Accounts : st[a].exists /\ st[a].active}

\* What the operation or route of the last step was called with and what it
\* returned: last' describes the step, whose pre-state is the unprimed state.
\* The steps of the tasks and of the environment leave NoOp.  For the route
\* stop_one, at is the await the account's task was suspended in when the
\* route was called ("": it had no task).
NoOp ==
    [op |-> "none", user |-> "", success |-> FALSE, message |-> "",
     loginCalls |-> 0, probed |-> "skipped", remote |-> "not_called",
     dbm |-> "up", handle |-> 0, count |-> 0, failed |-> {}, again |-> FALSE,
     at |-> "", http |-> 0, request |-> ""]

Observe(op, user, success, message, dbm) ==
    [NoOp EXCEPT !.op = op, !.user = user,
                 !.success = success, !.message = message, !.dbm = dbm,
                 !.again = (last.op = op /\ last.user = user)]

NoCall == [status |-> "idle", id |-> 0, ret |-> 0, answer |-> "", db |-> "unbound"]

\* --------------------------------------------------------------- the steps
\* manager.login(a, password), called while the registry can still grow.
ManagerLogin(a, remote, probe, dbm) ==
    /\ phase = "serving"
    /\ nextId <= MaxHandles
    /\ LET r == login(clients, store, nextId, a, remote, probe, dbm)
       IN  /\ clients' = r.clients
           /\ store' = r.store
           /\ nextId' = r.nextId
           /\ last' = [Observe("login", a, r.success, r.message, dbm) EXCEPT
                          !.loginCalls = r.loginCalls, !.probed = probe,
                          !.remote = remote, !.handle = r.handle]
    /\ UNCHANGED <<phase, monVars, envVars, sinkVars>>

ManagerLogout(a, bye, dbm) ==
    /\ phase = "serving"
    /\ LET r == logout(clients, store, a, bye, dbm)
       IN  /\ clients' = r.clients
           /\ store' = r.store
           /\ last' = [Observe("logout", a, r.success, r.message, dbm) EXCEPT
                          !.remote = bye]
    /\ UNCHANGED <<nextId, phase, monVars, envVars, sinkVars>>

\* The lifespan startup: restore the stored sessions, then serve requests.
Startup(probeOf, dbm) ==
    /\ phase = "boot"
    /\ LET r == load_existing_sessions(clients, store, nextId, probeOf, dbm)
       IN  /\ clients' = r.clients
           /\ store' = r.store
           /\ nextId' = r.nextId
           /\ last' = [Observe("restore", "", TRUE, "", dbm) EXCEPT
                          !.count = r.count,
                          !.failed = {a \in ActiveRows(store) : probeOf[a] # "ok"}]
    /\ phase' = "serving"
    /\ UNCHANGED <<monVars, envVars, sinkVars>>

\* The process is restarted: a new, empty InstagramManager; the store stays.
Restart ==
    /\ phase = "serving"
    /\ nextId <= MaxHandles
    /\ clients' = [a \in Accounts |-> NoClient]
    /\ phase' = "boot"
    /\ last' = Observe("restart", "", TRUE, "", "up")
    /\ UNCHANGED <<store, nextId, monVars, envVars, sinkVars>>

InitRows == {NoRow,
             [exists |-> TRUE, active |-> TRUE, blob |-> 0],
             [exists |-> TRUE, active |-> FALSE, blob |-> 0]}

\* The process has been constructed and the lifespan has not started yet.
InitProcess ==
    /\ clients = [a \in Accounts |-> NoClient]
    /\ nextId = 1
    /\ phase = "boot"
    /\ last = NoOp
    /\ monitor = FALSE
    /\ monitoring = FALSE
    /\ monitoring_tasks = [a \in Accounts |-> 0]
    /\ last_check_timestamps = [a \in Accounts |-> -1]
    /\ tasks = << >>
    /\ now = 0
    /\ inbox = << >>
    /\ events = << >>
    /\ calls = << >>
    /\ posts = << >>
    /\ call = NoCall

\* The session manager alone, over every store it can find at startup.
InitSession ==
    /\ InitProcess
    /\ store \in [Accounts -> InitRows]
    /\ webhook_url = TRUE
    /\ Unsecured

\* The calls one login makes: the probe only when an active row was read, the
\* remote login only when the stored session was not reused.
ProbeChoices(st, a, dbm) ==
    IF dbm # "open_fails" /\ QueryActive(st, a, dbm).exists
    THEN InfoOutcomes ELSE {"skipped"}

RemoteChoices(probe) == IF probe = "ok" THEN {"not_called"} ELSE LoginOutcomes

\* The remote logout is called only for an account with a registered client.
LogoutChoices(cl, a) == IF cl[a] # NoClient THEN LogoutOutcomes ELSE {"not_called"}

NextSession ==
    \/ \E probeOf \in [Accounts -> InfoOutcomes], dbm \in DbModes :
          Startup(probeOf, dbm)
    \/ \E a \in Accounts, dbm \in DbModes :
          \E probe \in ProbeChoices(store, a, dbm) :
             \E remote \in RemoteChoices(probe) :
                ManagerLogin(a, remote, probe, dbm)
    \/ \E a \in Accounts, dbm \in DbModes :
          \E bye \in LogoutChoices(clients, a) : ManagerLogout(a, bye, dbm)
    \/ Restart

SpecSession == InitSession /\ [][NextSession]_vars

\* ============================================== the steps of the whole hub
K == [events |-> events, calls |-> calls, posts |-> posts]
M == [monitoring |-> monitoring, monitoring_tasks |-> monitoring_tasks,
      tasks |-> tasks]

SetK(k) ==
    /\ Len(k.calls) <= MaxCalls
    /\ events' = k.events
    /\ calls' = k.calls
    /\ posts' = k.posts

SetM(m) ==
    /\ Len(m.tasks) <= MaxTasks
    /\ monitoring' = m.monitoring
    /\ monitoring_tasks' = m.monitoring_tasks
    /\ tasks' = m.tasks

Env(dbm, fetch) == [dbm |-> dbm, fetch |-> fetch, url |-> webhook_url]

\* What a step of task t leaves behind: r = [task, lc, k, map].
SetTask(t, r) ==
    /\ tasks' = [tasks EXCEPT ![t] = r.task]
    /\ monitoring_tasks' = r.map
    /\ last_check_timestamps' = r.lc
    /\ SetK(r.k)
    /\ last' = NoOp
    /\ UNCHANGED <<sessVars, monitor, monitoring, envVars, cfgVars, call>>

\* The event loop runs a task for the first time.
TaskStart(t, dbm, fetch) ==
    /\ tasks[t].pc = "created"
    /\ SetTask(t, monitor_user(K, inbox, t, tasks[t], M, clients,
                               last_check_timestamps, Env(dbm, fetch), now))

\* asyncio.sleep(120) is over: the loop condition is tested again.
TaskWakeLong(t, dbm, fetch) ==
    /\ tasks[t].pc = "sleep_long"
    /\ now >= tasks[t].wake
    /\ SetTask(t, LoopHead(K, inbox, t, tasks[t], M, clients,
                           last_check_timestamps, Env(dbm, fetch), now))

\* asyncio.sleep(10) is over: the comments are checked.
TaskWakeShort(t, dbm, fetch) ==
    /\ tasks[t].pc = "sleep_short"
    /\ now >= tasks[t].wake
    /\ LET r == check_comments(K, inbox, t, tasks[t], last_check_timestamps,
                               Env(dbm, fetch), now)
       IN  SetTask(t, [task |-> r.task, lc |-> r.lc, k |-> r.k,
                       map |-> monitoring_tasks])

\* The POST of a task's event is answered (or fails): log_event ends and the
\* check goes on with the items that are left.
TaskPostDone(t, outcome, dbm, fetch) ==
    /\ tasks[t].pc \in {"msg_post", "cmt_post"}
    /\ LET task == tasks[t]
           r == AfterScan(task, last_check_timestamps,
                          Scan(LogFinish(K, task.ev, outcome, dbm), inbox, t,
                               task.user, task.items, task.threads, task.scanned,
                               task.failed,
                               Checkpoint(last_check_timestamps, task.user, now),
                               Env(dbm, fetch)),
                          IF task.pc = "msg_post" THEN "msg" ELSE "cmt", now)
       IN  SetTask(t, [task |-> r.task, lc |-> r.lc, k |-> r.k,
                       map |-> monitoring_tasks])

\* ------------------------------------------------------- the environment
\* The clock and the remote users are followed while some task is alive: at
\* other times nothing reads the clock or the inbox.
Tick ==
    /\ \E t \in DOMAIN tasks : Alive(tasks[t])
    /\ now < MaxTime
    /\ now' = now + 1
    /\ last' = NoOp
    /\ UNCHANGED <<sessVars, monVars, inbox, sinkVars>>

\* A user writes to an account (thread: the peer's direct thread, or "post"
\* for a comment); the remote stamps the item with the current time.
Arrive(to, thread, author) ==
    /\ \E t \in DOMAIN tasks : Alive(tasks[t])
    /\ Len(inbox) < MaxItems
    /\ inbox' = Append(inbox, [to |-> to, thread |-> thread, author |-> author,
                               ts |-> now])
    /\ last' = NoOp
    /\ UNCHANGED <<sessVars, monVars, now, sinkVars>>

\* ------------------------------------------------------ the routes (main.py)
\* The hub is followed until the last of its MaxTasks tasks has ended.
Watching == Len(tasks) < MaxTasks \/ \E t \in DOMAIN tasks : Alive(tasks[t])

\* What a route leaves in last.
\* The HTTP status of a route that ran to its return statement: 200, but
\* the logout route raises HTTPException(500) when the manager reports a
\* failure.  The startup ("restore") is no request and answers nothing.
StatusCode(op, success) ==
    IF op = "restore" THEN 0
    ELSE IF op = "logout" /\ ~success THEN 500
    ELSE 200

Route(op, user, success, message, dbm) ==
    [NoOp EXCEPT !.op = op, !.user = user, !.success = success,
                 !.message = message, !.dbm = dbm,
                 !.http = StatusCode(op, success)]

\* lifespan: create_tables, load_existing_sessions, the monitor, and
\* start_monitoring when a session was restored.  When create_tables raises
\* the monitor is never created.
Lifespan(probeOf, dbm, tables) ==
    /\ phase = "boot"
    /\ phase' = "serving"
    /\ IF tables
       THEN LET r == load_existing_sessions(clients, store, nextId, probeOf, dbm)
            IN  /\ clients' = r.clients
                /\ store' = r.store
                /\ nextId' = r.nextId
                /\ monitor' = TRUE
                /\ SetM(IF r.count > 0 THEN start_monitoring(M, r.clients) ELSE M)
                /\ last' = [Route("restore", "", TRUE, "", dbm) EXCEPT
                               !.count = r.count]
       ELSE /\ UNCHANGED <<clients, store, nextId, monitor, monitoring,
                           monitoring_tasks, tasks>>
            /\ last' = Route("restore", "", FALSE, "", dbm)
    /\ UNCHANGED <<last_check_timestamps, envVars, sinkVars>>

\* POST /login
LoginRoute(a, remote, probe, dbm) ==
    /\ phase = "serving" /\ Watching
    /\ nextId <= MaxHandles
    /\ LET r == login(clients, store, nextId, a, remote, probe, dbm)
       IN  /\ clients' = r.clients
           /\ store' = r.store
           /\ nextId' = r.nextId
           /\ SetM(IF r.success /\ monitor THEN start_user_monitoring(M, a) ELSE M)
           /\ last' = [Route("login", a, r.success, r.message, dbm) EXCEPT
                          !.handle = r.handle]
    /\ UNCHANGED <<phase, monitor, last_check_timestamps, envVars, sinkVars>>

\* POST /logout/{username}
LogoutRoute(a, bye, dbm) ==
    /\ phase = "serving" /\ Watching
    /\ LET r == logout(clients, store, a, bye, dbm)
       IN  /\ clients' = r.clients
           /\ store' = r.store
           /\ last' = Route("logout", a, r.success, r.message, dbm)
    /\ SetM(IF monitor THEN stop_user_monitoring(M, a) ELSE M)
    /\ UNCHANGED <<nextId, phase, monitor, last_check_timestamps, envVars, sinkVars>>

\* POST /monitoring/start
StartAll ==
    /\ phase = "serving" /\ monitor /\ Watching
    /\ SetM(start_monitoring(M, clients))
    /\ last' = Route("start_all", "", TRUE, "", "up")
    /\ UNCHANGED <<sessVars, monitor, last_check_timestamps, envVars, sinkVars>>

\* POST /monitoring/stop
StopAll ==
    /\ phase = "serving" /\ monitor /\ Watching
    /\ SetM(stop_monitoring(M))
    /\ last' = Route("stop_all", "", TRUE, "", "up")
    /\ UNCHANGED <<sessVars, monitor, last_check_timestamps, envVars, sinkVars>>

\* POST /monitoring/{username}/start (404 without a registered client)
StartOne(a) ==
    /\ phase = "serving" /\ monitor /\ Watching
    /\ get_client(clients, a) # NoClient
    /\ SetM(start_user_monitoring(M, a))
    /\ last' = Route("start_one", a, TRUE, "", "up")
    /\ UNCHANGED <<sessVars, monitor, last_check_timestamps, envVars, sinkVars>>

\* POST /monitoring/{username}/stop
StopOne(a) ==
    /\ phase = "serving" /\ monitor /\ Watching
    /\ SetM(stop_user_monitoring(M, a))
    /\ last' = [Route("stop_one", a, TRUE, "", "up") EXCEPT
                   !.at = IF monitoring_tasks[a] # 0
                          THEN tasks[monitoring_tasks[a]].pc ELSE ""]
    /\ UNCHANGED <<sessVars, monitor, last_check_timestamps, envVars, sinkVars>>

\* ------------------------------------------- log_event called on its own
SinkDbModes == {"up", "open_fails", "commit_fails"}
EventTypes == {"new_message", "new_comment", "mention", "new_follower"}

CallLogEvent(a, event_type, sender, dbm) ==
    /\ call.status # "posting"
    /\ LET r == LogBegin(K, a, event_type, sender, 0, [task |-> 0, cp |-> 0],
                         dbm, webhook_url)
       IN  /\ SetK(r.k)
           /\ call' = [status |-> r.status, id |-> r.id,
                       ret |-> IF r.status = "returned" THEN r.id ELSE 0,
                       answer |-> "", db |-> r.db]
    /\ UNCHANGED <<sessVars, last, monVars, envVars, cfgVars>>

CallPostDone(outcome, dbm) ==
    /\ call.status = "posting"
    /\ SetK(LogFinish(K, call.id, outcome, dbm))
    /\ call' = [status |-> "returned", id |-> call.id, ret |-> call.id,
                answer |-> outcome, db |-> "closed"]
    /\ UNCHANGED <<sessVars, last, monVars, envVars, cfgVars>>

\* POST /webhook/events/{event_id}/process
MarkProcessed(id) ==
    /\ \E i \in DOMAIN events : events[i].id = id /\ ~events[i].processed
    /\ events' = mark_event_processed(events, id)
    /\ UNCHANGED <<sessVars, last, monVars, envVars, calls, posts, cfgVars, call>>

InitSink ==
    /\ InitProcess
    /\ store = [a \in Accounts |-> NoRow]
    /\ webhook_url \in BOOLEAN
    /\ Unsecured

NextSink ==
    \/ \E ty \in EventTypes, dbm \in SinkDbModes :
          CallLogEvent("alice", ty, "carol", dbm)
    \/ \E outcome \in PostOutcomes, dbm \in SinkDbModes : CallPostDone(outcome, dbm)
    \/ \E id \in 1..MaxCalls : MarkProcessed(id)

SpecSink == InitSink /\ [][NextSink]_vars

\* ------------------------------------------------------------ the whole hub
\* What a user can write: a message in the direct thread the account has with
\* a peer (by the peer or by the account itself), or a comment on the
\* account's post (by anyone).
Writers(to, thread) == IF thread = "post" THEN Peers \cup {to} ELSE {thread, to}

Threads == Peers \cup {"post"}

\* The failures of the store a task can meet: log_event makes no query.
TaskDbModes == SinkDbModes

\* The whole-hub specification leaves the store's failures during login and
\* logout to SpecSession and the answers of the receiver to SpecSink: here
\* the store serves the routes, and a POST is answered with 200 or times out.
HubDbModes == {"up"}
HubPostOutcomes == {"200", "timeout"}

\* The whole hub is followed with one item, so with one thread per check:
\* a first fetch that raises is a fetch that raises.
HubFetchOutcomes == {"ok", "list_raises", "items_raise"}

\* The accounts that use the hub in the whole-hub specification.
HubAccounts == {"alice"}

Init ==
    /\ InitProcess
    /\ store \in {st \in [Accounts -> {NoRow, [exists |-> TRUE, active |-> TRUE,
                                                blob |-> 0]}] :
                      \A a \in Accounts \ HubAccounts : st[a] = NoRow}
    /\ webhook_url = TRUE
    /\ Unsecured

Next ==
    \/ \E probeOf \in [Accounts -> {"ok", "raise"}], dbm \in {"up", "open_fails"},
          tables \in BOOLEAN :
          Lifespan(probeOf, dbm, tables)
    \/ \E a \in HubAccounts, dbm \in HubDbModes :
          \E probe \in ProbeChoices(store, a, dbm) :
             \E remote \in RemoteChoices(probe) \cap {"not_called", "ok", "bad_password"} :
                LoginRoute(a, remote, probe, dbm)
    \/ \E a \in HubAccounts, dbm \in HubDbModes :
          \E bye \in LogoutChoices(clients, a) : LogoutRoute(a, bye, dbm)
    \/ StartAll
    \/ StopAll
    \/ \E a \in HubAccounts : StartOne(a)
    \/ \E a \in HubAccounts : StopOne(a)
    \/ \E t \in DOMAIN tasks, dbm \in TaskDbModes, fetch \in HubFetchOutcomes :
          TaskStart(t, dbm, fetch)
    \/ \E t \in DOMAIN tasks, dbm \in TaskDbModes, fetch \in HubFetchOutcomes :
          TaskWakeShort(t, dbm, fetch)
    \/ \E t \in DOMAIN tasks, dbm \in TaskDbModes, fetch \in HubFetchOutcomes :
          TaskWakeLong(t, dbm, fetch)
    \/ \E t \in DOMAIN tasks, outcome \in HubPostOutcomes, dbm \in TaskDbModes,
          fetch \in HubFetchOutcomes :
          TaskPostDone(t, outcome, dbm, fetch)
    \/ Tick
    \/ \E to \in HubAccounts, thread \in Threads :
          \E author \in Writers(to, thread) : Arrive(to, thread, author)

Spec == Init /\ [][Next]_vars

\* ------------------------------------------------------ one polling cycle
\* The novelty test on its own: alice is logged in and monitored, her task is
\* at the end of its long sleep, and the remote holds any NoveltyItems items
\* written at times up to now, one tick before MaxTime; the checkpoint is any
\* time up to now.
Items(to) ==
    {[to |-> to, thread |-> thread, author |-> author, ts |-> ts] :
        thread \in Threads, author \in Peers \cup {to}, ts \in 0..(MaxTime - 1)}

Inboxes(to) ==
    {box \in [1..NoveltyItems -> Items(to)] :
        /\ \A i \in 1..NoveltyItems : box[i].author \in Writers(to, box[i].thread)
        /\ \A i \in 1..(NoveltyItems - 1) : box[i].ts <= box[i + 1].ts}

InitNovelty ==
    /\ clients = [a \in Accounts |-> IF a = "alice" THEN [id |-> 1, blob |-> 0]
                                     ELSE NoClient]
    /\ store = [a \in Accounts |->
                   IF a = "alice" THEN [exists |-> TRUE, active |-> TRUE, blob |-> 0]
                   ELSE NoRow]
    /\ nextId = 2
    /\ phase = "serving"
    /\ last = NoOp
    /\ monitor = TRUE
    /\ monitoring = TRUE
    /\ monitoring_tasks = [a \in Accounts |-> IF a = "alice" THEN 1 ELSE 0]
    /\ last_check_timestamps \in
          {[a \in Accounts |-> IF a = "alice" THEN cp ELSE -1] :
              cp \in 0..(MaxTime - 1)}
    /\ tasks = <<[NoTask EXCEPT !.user = "alice", !.client = 1,
                                !.pc = "sleep_long", !.wake = MaxTime - 1]>>
    /\ now = MaxTime - 1
    /\ inbox \in Inboxes("alice")
    /\ events = << >>
    /\ calls = << >>
    /\ posts = << >>
    /\ webhook_url = TRUE
    /\ Unsecured
    /\ call = NoCall

NextNovelty ==
    \/ \E t \in DOMAIN tasks, dbm \in TaskDbModes, fetch \in FetchOutcomes :
          TaskWakeLong(t, dbm, fetch)
    \/ \E t \in DOMAIN tasks, dbm \in TaskDbModes, fetch \in FetchOutcomes :
          TaskWakeShort(t, dbm, fetch)
    \/ \E t \in DOMAIN tasks, outcome \in HubPostOutcomes, dbm \in TaskDbModes,
          fetch \in FetchOutcomes :
          TaskPostDone(t, outcome, dbm, fetch)
    \/ Tick

SpecNovelty == InitNovelty /\ [][NextNovelty]_vars

\* ------------------------------------------------ the monitor on its own
\* InstagramMonitor called through its methods, next to a registry that holds
\* alice's client and none for bob.  start_user_monitoring takes any
\* username: the test for a client is made by the route, not by the method.
InitMonitor ==
    /\ clients = [a \in Accounts |-> IF a = "alice" THEN [id |-> 1, blob |-> 0]
                                     ELSE NoClient]
    /\ store = [a \in Accounts |->
                   IF a = "alice" THEN [exists |-> TRUE, active |-> TRUE, blob |-> 0]
                   ELSE NoRow]
    /\ nextId = 2
    /\ phase = "serving"
    /\ last = NoOp
    /\ monitor = TRUE
    /\ monitoring = FALSE
    /\ monitoring_tasks = [a \in Accounts |-> 0]
    /\ last_check_timestamps = [a \in Accounts |-> -1]
    /\ tasks = << >>
    /\ now = 0
    /\ inbox = << >>
    /\ events = << >>
    /\ calls = << >>
    /\ posts = << >>
    /\ webhook_url = TRUE
    /\ Unsecured
    /\ call = NoCall

\* monitor.start_user_monitoring(a)
MonitorStartOne(a) ==
    /\ Watching
    /\ SetM(start_user_monitoring(M, a))
    /\ last' = Route("start_one", a, TRUE, "", "up")
    /\ UNCHANGED <<sessVars, monitor, last_check_timestamps, envVars, sinkVars>>

NextMonitor ==
    \/ \E a \in Accounts : MonitorStartOne(a)
    \/ \E a \in Accounts : StopOne(a)
    \/ StartAll
    \/ StopAll
    \/ \E a \in HubAccounts : \E bye \in LogoutChoices(clients, a) :
          ManagerLogout(a, bye, "up")
    \/ \E t \in DOMAIN tasks, dbm \in TaskDbModes, fetch \in HubFetchOutcomes :
          TaskStart(t, dbm, fetch)
    \/ \E t \in DOMAIN tasks, dbm \in TaskDbModes, fetch \in HubFetchOutcomes :
          TaskWakeShort(t, dbm, fetch)
    \/ \E t \in DOMAIN tasks, dbm \in TaskDbModes, fetch \in HubFetchOutcomes :
          TaskWakeLong(t, dbm, fetch)
    \/ \E t \in DOMAIN tasks, outcome \in HubPostOutcomes, dbm \in TaskDbModes,
          fetch \in HubFetchOutcomes :
          TaskPostDone(t, outcome, dbm, fetch)
    \/ Tick
    \/ \E to \in HubAccounts, thread \in Threads :
          \E author \in Writers(to, thread) : Arrive(to, thread, author)

SpecMonitor == InitMonitor /\ [][NextMonitor]_vars

\* ------------------------------------------------------- two accounts
\* The routes that start and stop monitoring, for two accounts.  alice is
\* logged in and bob is not; monitoring is switched on and no task is left
\* of what went before.  The inbox stays empty and the remote and the store
\* answer: what a task finds is left to the other specifications.
InitFrame ==
    /\ clients = [a \in Accounts |-> IF a = "alice" THEN [id |-> 1, blob |-> 0]
                                     ELSE NoClient]
    /\ store = [a \in Accounts |->
                   IF a = "alice" THEN [exists |-> TRUE, active |-> TRUE, blob |-> 0]
                   ELSE NoRow]
    /\ nextId = 2
    /\ phase = "serving"
    /\ last = NoOp
    /\ monitor = TRUE
    /\ monitoring = TRUE
    /\ monitoring_tasks = [a \in Accounts |-> 0]
    /\ last_check_timestamps = [a \in Accounts |-> -1]
    /\ tasks = << >>
    /\ now = 0
    /\ inbox = << >>
    /\ events = << >>
    /\ calls = << >>
    /\ posts = << >>
    /\ webhook_url = TRUE
    /\ Unsecured
    /\ call = NoCall

NextFrame ==
    \/ \E a \in Accounts :
          \E probe \in ProbeChoices(store, a, "up") :
             \E remote \in RemoteChoices(probe) \cap {"not_called", "ok", "bad_password"} :
                LoginRoute(a, remote, probe, "up")
    \/ \E a \in Accounts : \E bye \in LogoutChoices(clients, a) :
          LogoutRoute(a, bye, "up")
    \/ StartAll
    \/ StopAll
    \/ \E a \in Accounts : StartOne(a)
    \/ \E a \in Accounts : StopOne(a)
    \/ \E t \in DOMAIN tasks : TaskStart(t, "up", "ok")
    \/ \E t \in DOMAIN tasks : TaskWakeShort(t, "up", "ok")
    \/ \E t \in DOMAIN tasks : TaskWakeLong(t, "up", "ok")
    \/ Tick

SpecFrame == InitFrame /\ [][NextFrame]_vars

\* ------------------------------------------------------ the API layer
\* get_api_key that lets any header through.
get_api_key_lenient(key, header) ==
    IF key = "" \/ header # "absent" THEN "pass" ELSE "403"

\* get_api_key(api_key_header): "pass" when it returns, "403" when it raises
\* HTTPException(status_code=403).
get_api_key(key, header) ==
    IF key = "" THEN "pass"
    ELSE IF header = key THEN "pass"
    ELSE "403"

\* The routes that call the remote API through the account's client and have
\* the same shape: get_user_media, get_followers_count, get_direct_messages,
\* get_thread_messages, send_direct_message.
ClientRoutes == {"media", "followers", "messages", "thread_messages", "send_message"}
RemoteOutcomes == {"ok", "raise"}

client_route(cl, username, remote) ==
    IF get_client(cl, username) = NoClient
    THEN [http |-> 404, success |-> FALSE, message |-> "Session not found or inactive",
          remote |-> "not_called"]
    ELSE IF remote = "raise"
    THEN [http |-> 500, success |-> FALSE, message |-> "Failed", remote |-> remote]
    ELSE [http |-> 200, success |-> TRUE, message |-> "", remote |-> remote]

\* GET /user/{username}: manager.get_user_info reports a missing client and
\* a remote error alike with success = False, and the route answers 404.
get_user_info(cl, username, remote) ==
    IF get_client(cl, username) = NoClient
    THEN [http |-> 404, success |-> FALSE, message |-> "Session not found or inactive",
          remote |-> "not_called"]
    ELSE IF remote = "raise"
    THEN [http |-> 404, success |-> FALSE, message |-> "Failed to get user info",
          remote |-> remote]
    ELSE [http |-> 200, success |-> TRUE, message |-> "User info retrieved",
          remote |-> remote]

\* POST /reply: the HTTPException(400) of a request without thread_id or
\* comment_id, or of another reply_type, is raised inside the try block and
\* caught by its `except Exception`, which raises HTTPException(500).  A
\* comment reply calls nothing remote.
ReplyRequests == {"message", "message_without_thread", "comment",
                  "comment_without_id", "other"}

send_reply(cl, username, req, remote) ==
    IF get_client(cl, username) = NoClient
    THEN [http |-> 404, success |-> FALSE, message |-> "Session not found or inactive",
          remote |-> "not_called"]
    ELSE IF req = "message"
    THEN IF remote = "raise"
         THEN [http |-> 500, success |-> FALSE, message |-> "Failed", remote |-> remote]
         ELSE [http |-> 200, success |-> TRUE, message |-> "", remote |-> remote]
    ELSE IF req = "comment"
    THEN [http |-> 200, success |-> TRUE, message |-> "", remote |-> "not_called"]
    ELSE [http |-> 500, success |-> FALSE, message |-> "Failed", remote |-> "not_called"]

\* A request arrives: FastAPI reads its X-API-Key header.
Receive(h) ==
    /\ phase = "serving"
    /\ api_key_header' = h
    /\ last' = NoOp
    /\ UNCHANGED <<sessVars, monVars, envVars, events, calls, posts, webhook_url,
                   API_KEY, call>>

\* The dependency get_api_key of the route let the request through.
Passed == get_api_key(API_KEY, api_key_header) = "pass"

\* A response that leaves the program as it was.
Respond(op, user, r) ==
    /\ phase = "serving"
    /\ last' = [Route(op, user, r.success, r.message, "up") EXCEPT
                   !.http = r.http, !.remote = r.remote]
    /\ UNCHANGED <<sessVars, monVars, envVars, sinkVars>>

\* The dependency raised: the route is not entered.
Rejected(op, user) ==
    /\ ~Passed
    /\ Respond(op, user, [http |-> 403, success |-> FALSE,
                          message |-> "Could not validate credentials",
                          remote |-> "not_called"])

ClientRoute(kind, a, remote) == Respond(kind, a, client_route(clients, a, remote))

UserInfoRoute(a, remote) == Respond("user", a, get_user_info(clients, a, remote))

ReplyRoute(a, req, remote) ==
    /\ phase = "serving"
    /\ LET r == send_reply(clients, a, req, remote)
       IN  last' = [Route("reply", a, r.success, r.message, "up") EXCEPT
                       !.http = r.http, !.remote = r.remote, !.request = req]
    /\ UNCHANGED <<sessVars, monVars, envVars, sinkVars>>

\* GET /: no dependency, so no check of the header.
HealthRoute ==
    /\ phase = "serving"
    /\ last' = [Route("health", "", TRUE, "Instagram Hub is running", "up") EXCEPT
                   !.count = Cardinality(get_all_usernames(clients))]
    /\ UNCHANGED <<sessVars, monVars, envVars, sinkVars>>

\* The monitoring routes while instagram_monitor is None.
MonitorOps == {"status", "start_all", "stop_all", "start_one", "stop_one"}

MonitorDown(op, a) ==
    /\ ~monitor
    /\ Respond(op, a, [http |-> 503, success |-> FALSE,
                       message |-> "Monitoring service not initialized",
                       remote |-> "not_called"])

\* GET /monitoring/status
StatusRoute ==
    /\ monitor
    /\ Respond("status", "", [http |-> 200, success |-> TRUE, message |-> "",
                              remote |-> "not_called"])

\* POST /monitoring/{username}/start without a client of that name.
StartOneNoClient(a) ==
    /\ monitor
    /\ get_client(clients, a) = NoClient
    /\ Respond("start_one", a, [http |-> 404, success |-> FALSE,
                                message |-> "Session not found or inactive",
                                remote |-> "not_called"])

GuardedOps == {"login", "logout", "user", "reply", "status", "start_all", "stop_all",
               "start_one", "stop_one"} \cup ClientRoutes

\* The process with any shared secret, before its startup.
InitApi ==
    /\ InitProcess
    /\ store \in {st \in [Accounts -> {NoRow, [exists |-> TRUE, active |-> TRUE,
                                                blob |-> 0]}] :
                      \A a \in Accounts \ HubAccounts : st[a] = NoRow}
    /\ webhook_url = TRUE
    /\ API_KEY \in Keys
    /\ api_key_header = "absent"

NextApi ==
    \/ \E probeOf \in [Accounts -> {"ok", "raise"}], dbm \in {"up", "open_fails"},
          tables \in BOOLEAN :
          Lifespan(probeOf, dbm, tables)
    \/ \E h \in Headers : Receive(h)
    \/ \E op \in GuardedOps, a \in HubAccounts : Rejected(op, a)
    \/ HealthRoute
    \/ /\ Passed
       /\ \E a \in HubAccounts, dbm \in HubDbModes :
             \E probe \in ProbeChoices(store, a, dbm) :
                \E remote \in RemoteChoices(probe) \cap {"not_called", "ok", "bad_password"} :
                   LoginRoute(a, remote, probe, dbm)
    \/ /\ Passed
       /\ \E a \in HubAccounts, dbm \in HubDbModes :
             \E bye \in LogoutChoices(clients, a) : LogoutRoute(a, bye, dbm)
    \/ Passed /\ StartAll
    \/ Passed /\ StopAll
    \/ Passed /\ \E a \in HubAccounts : StartOne(a)
    \/ Passed /\ \E a \in HubAccounts : StopOne(a)
    \/ Passed /\ \E a \in HubAccounts : StartOneNoClient(a)
    \/ Passed /\ StatusRoute
    \/ Passed /\ \E op \in MonitorOps, a \in HubAccounts : MonitorDown(op, a)
    \/ Passed /\ \E kind \in ClientRoutes, a \in HubAccounts, remote \in RemoteOutcomes :
                    ClientRoute(kind, a, remote)
    \/ Passed /\ \E a \in HubAccounts, remote \in RemoteOutcomes : UserInfoRoute(a, remote)
    \/ Passed /\ \E a \in HubAccounts, req \in ReplyRequests, remote \in RemoteOutcomes :
                    ReplyRoute(a, req, remote)

SpecApi == InitApi /\ [][NextApi]_vars

\* ------------------------------------------------- the loop left to itself
\* One account whose session was restored at startup and whose task has just
\* been created; the account stays logged in and monitoring stays switched on,
\* the task may be stopped and started again.  The event loop runs a task that
\* is ready before the clock moves on: a tick is two minutes, a ready task
\* runs at once and a POST ends within the 30 seconds of its timeout.
InitRetry ==
    /\ clients = [a \in Accounts |-> IF a \in HubAccounts THEN [id |-> 1, blob |-> 0]
                                     ELSE NoClient]
    /\ store = [a \in Accounts |->
                   IF a \in HubAccounts THEN [exists |-> TRUE, active |-> TRUE, blob |-> 0]
                   ELSE NoRow]
    /\ nextId = 2
    /\ phase = "serving"
    /\ last = NoOp
    /\ monitor = TRUE
    /\ monitoring = TRUE
    /\ monitoring_tasks = [a \in Accounts |-> IF a \in HubAccounts THEN 1 ELSE 0]
    /\ last_check_timestamps = [a \in Accounts |-> -1]
    /\ tasks = <<NewTask("alice")>>
    /\ now = 0
    /\ inbox = << >>
    /\ events = << >>
    /\ calls = << >>
    /\ posts = << >>
    /\ webhook_url = TRUE
    /\ Unsecured
    /\ call = NoCall

\* A task is ready: it has not run yet, its sleep is over, or it awaits the
\* answer of a POST.
Ready(task, clock) ==
    \/ task.pc \in {"created", "msg_post", "cmt_post"}
    \/ task.pc \in {"sleep_short", "sleep_long"} /\ clock >= task.wake

TickIdle ==
    /\ \A t \in DOMAIN tasks : ~Ready(tasks[t], now)
    /\ Tick

\* A step of task t under one outcome of its fetches and of the store.
TaskStepWith(t, dbm, fetch) ==
    \/ TaskStart(t, dbm, fetch)
    \/ TaskWakeShort(t, dbm, fetch)
    \/ TaskWakeLong(t, dbm, fetch)
    \/ \E outcome \in HubPostOutcomes : TaskPostDone(t, outcome, dbm, fetch)

\* Any step of task t: the fetch of the list fails, or it answers and the
\* fetches that follow do as they like.
TaskStep(t) ==
    /\ t \in DOMAIN tasks
    /\ Ready(tasks[t], now)
    /\ \/ \E dbm \in TaskDbModes : TaskStepWith(t, dbm, "list_raises")
       \/ \E dbm \in TaskDbModes, fetch \in FetchOutcomes \ {"list_raises"} :
             TaskStepWith(t, dbm, fetch)

NextRetry ==
    \/ \E t \in 1..MaxTasks : TaskStep(t)
    \/ TickIdle
    \/ \E to \in HubAccounts, thread \in Threads :
          \E author \in Writers(to, thread) : Arrive(to, thread, author)
    \/ \E a \in HubAccounts : StopOne(a)
    \/ \E a \in HubAccounts : StartOne(a)

\* The event loop runs every ready task and the clock goes on.
SpecRetry ==
    /\ InitRetry
    /\ [][NextRetry]_vars
    /\ WF_vars(TickIdle)
    /\ \A t \in 1..MaxTasks : WF_vars(TaskStep(t))

\* ================================================================ claims
\* login reads only rows with is_active = True: the stored session of an account.
HasStoredSession(st, a) == st[a].exists /\ st[a].active

\* C1: for an account with no stored session, login with correct credentials
\* (the remote accepts them) returns success and leaves a registry entry;
\* with incorrect credentials it returns failure with the invalid-credentials
\* message and the registry then holds no entry for the account.
C1_Claim ==
    [][last'.op = "login" /\ ~HasStoredSession(store, last'.user) =>
          /\ last'.remote \in {"ok", "ok_no_profile"} =>
                last'.success /\ clients'[last'.user] # NoClient
          /\ last'.remote = "bad_password" =>
                /\ ~last'.success
                /\ last'.message = "Invalid username or password"
                /\ clients'[last'.user] = NoClient]_vars

\* C2: when the store holds an active session and the probe of the restored
\* handle succeeds, login registers that handle (it carries the stored blob),
\* answers "Using existing session" and makes no remote login call.
C2_ReuseStoredSession ==
    [][last'.op = "login" /\ HasStoredSession(store, last'.user)
          /\ last'.probed = "ok" =>
          /\ last'.success
          /\ last'.message = "Using existing session"
          /\ last'.loginCalls = 0
          /\ last'.handle # 0
          /\ clients'[last'.user] =
                [id |-> last'.handle, blob |-> store[last'.user].blob]
          /\ store' = store]_vars

\* A login has reused the stored session of its account.
C2_Witness ==
    /\ last.op = "login" /\ last.probed = "ok"
    /\ last.success /\ last.loginCalls = 0
    /\ clients[last.user].blob = store[last.user].blob

\* C3: every logout returns success and leaves the registry without the
\* account, also a logout that directly follows a logout of the same account.
C3_LogoutIdempotent ==
    [][last'.op = "logout" =>
          last'.success /\ clients'[last'.user] = NoClient]_vars

\* The second of two logouts of one account in a row has returned.
C3_Witness ==
    last.op = "logout" /\ last.again /\ last.success /\ clients[last.user] = NoClient

\* C4 as claimed: restore_all registers exactly the N-K accounts whose probe
\* succeeds, flips exactly the K other rows to inactive and returns N-K.
C4_Claim ==
    [][last'.op = "restore" =>
          LET S == ActiveRows(store)
              F == last'.failed
          IN  /\ get_all_usernames(clients') = S \ F
              /\ ActiveRows(store') = S \ F
              /\ last'.count = Cardinality(S) - Cardinality(F)]_vars

\* C4 as amended: the above when the store can be opened, read and written
\* (one failing session never keeps the others from being restored); when it
\* cannot be opened or read nothing is restored, no row changes and 0 is
\* returned; when it rejects the writes no row changes.  The only change ever
\* made to a row is the flip of a failing session to inactive, and every
\* restored handle carries the stored blob of its account.
C4_RestoreAll ==
    [][last'.op = "restore" =>
          LET S == ActiveRows(store)
              F == last'.failed
          IN  /\ last'.dbm \in {"open_fails", "query_fails"} =>
                    /\ last'.count = 0
                    /\ clients' = clients /\ store' = store
              /\ last'.dbm = "up" =>
                    /\ get_all_usernames(clients') = S \ F
                    /\ last'.count = Cardinality(S) - Cardinality(F)
                    /\ \A a \in S \ F : clients'[a].blob = store[a].blob
              /\ last'.dbm = "up" => ActiveRows(store') = S \ F
              /\ last'.dbm = "commit_fails" => store' = store
              /\ \A a \in Accounts :
                    store'[a] # store[a] =>
                       /\ a \in F
                       /\ store'[a] = [store[a] EXCEPT !.active = FALSE]]_vars

\* A startup over two stored sessions, one of which failed its probe.
C4_Witness ==
    /\ last.op = "restore" /\ last.dbm = "up"
    /\ last.count = 1 /\ Cardinality(last.failed) = 1
    /\ Cardinality(get_all_usernames(clients)) = 1

\* C9: after a successful fresh login with a store that accepts writes, the
\* account's row is active and holds the blob this login produced, whatever
\* the row was before.
C9_Claim ==
    [][last'.op = "login" /\ last'.success /\ last'.loginCalls = 1
          /\ last'.dbm = "up" =>
          store'[last'.user] =
             [exists |-> TRUE, active |-> TRUE, blob |-> last'.handle]]_vars

\* The calls of log_event made for item i of the inbox on behalf of an account.
Reports(cs, username, i) ==
    {c \in DOMAIN cs : cs[c].username = username /\ cs[c].item = i}

\* C5: only items written by others and stamped strictly later than the
\* checkpoint they were compared with are forwarded to log_event, and when a
\* message check has come to its end without log_event raising, every message
\* it fetched that was written by another user strictly later than the
\* checkpoint has been forwarded; an item written by the account is never
\* forwarded.
C5_StrictlyNewer ==
    /\ \A c \in DOMAIN calls :
          /\ inbox[calls[c].item].author # calls[c].username
          /\ inbox[calls[c].item].to = calls[c].username
          /\ inbox[calls[c].item].ts > calls[c].cp
    /\ \A t \in DOMAIN tasks :
          tasks[t].pc = "sleep_short" /\ (\A c \in DOMAIN calls : ~calls[c].raised) =>
             \A i \in tasks[t].scanned :
                /\ inbox[i].author # tasks[t].user
                /\ inbox[i].ts > last_check_timestamps[tasks[t].user]
                => Reports(calls, tasks[t].user, i) # {}

\* A message check has ended that fetched messages of other users stamped
\* T-1, T and T+1 for the checkpoint T, and one call of log_event was made:
\* for the message stamped T+1.
C5_Witness ==
    \E t \in DOMAIN tasks :
       LET T == last_check_timestamps[tasks[t].user]
           others == {i \in tasks[t].scanned : inbox[i].author # tasks[t].user}
       IN  /\ tasks[t].pc = "sleep_short"
           /\ {inbox[i].ts : i \in others} = {T - 1, T, T + 1}
           /\ Len(calls) = 1
           /\ inbox[calls[1].item].ts = T + 1
           /\ Len(events) = 1

\* C6: every call of log_event that has ended has returned its event id and
\* has left exactly one row with that id in webhook_events, processed = false;
\* when the POST did not get a 200 the row has webhook_sent = false and
\* get_webhook_events with its default arguments returns the row.
C6_Claim ==
    [][call' # call /\ call'.status \in {"returned", "raised"} =>
          LET rows == {i \in DOMAIN events' : events'[i].id = call'.id}
              listed == get_webhook_events(events', DefaultLimit, "any").events
          IN  /\ call'.ret # 0
              /\ Cardinality(rows) = 1
              /\ \A i \in rows :
                    /\ ~events'[i].processed
                    /\ call'.answer # "200" =>
                          /\ ~events'[i].webhook_sent
                          /\ \E j \in DOMAIN listed : listed[j] = events'[i]]_vars

\* C7 (its first part): the first step of a task started for an account that
\* is logged in leaves the task in its loop, listed in the task map, with the
\* account's checkpoint set to the time of the step.
C7_Claim ==
    [][\A t \in DOMAIN tasks :
          /\ tasks[t].pc = "created"
          /\ tasks'[t].pc \notin {"created", "cancelled"}
          /\ get_client(clients, tasks[t].user) # NoClient
          => /\ Alive(tasks'[t])
             /\ monitoring_tasks'[tasks[t].user] = t
             /\ last_check_timestamps'[tasks[t].user] = now]_vars

\* C8: when the route stop_one is called for an account whose task is in one
\* of its sleeps, the task has ended when the route returns and the status
\* no longer lists the account; and a task that has ended takes no further
\* step: no call of log_event is made by it, no event row is added for it.
C8_StopWhileSleeping ==
    [][/\ \A a \in Accounts :
             /\ last'.op = "stop_one" /\ last'.user = a
             /\ last'.at \in {"sleep_short", "sleep_long"}
             => /\ ~Alive(tasks'[monitoring_tasks[a]])
                /\ a \notin get_monitoring_status(
                                [monitoring |-> monitoring',
                                 monitoring_tasks |-> monitoring_tasks',
                                 tasks |-> tasks'],
                                last_check_timestamps').active_monitors
       /\ \A t \in DOMAIN tasks :
             ~Alive(tasks[t]) =>
                /\ tasks'[t] = tasks[t]
                /\ \A c \in DOMAIN calls' \ DOMAIN calls : calls'[c].task # t]_vars

\* stop_one has just stopped a task in its long sleep, and the inbox holds an
\* item of another user that the task would have reported at its next check.
C8_Witness ==
    /\ last.op = "stop_one" /\ last.at = "sleep_long"
    /\ \E t \in DOMAIN tasks :
          /\ tasks[t].pc = "cancelled"
          /\ tasks[t].user = last.user
          /\ monitoring_tasks[last.user] = 0
          /\ \E i \in DOMAIN inbox :
                /\ inbox[i].to = last.user
                /\ inbox[i].author # last.user
                /\ inbox[i].ts > last_check_timestamps[last.user]
                /\ Reports(calls, last.user, i) = {}

\* C10 (its last part): when a message check ends one step after the long
\* sleep, every message it fetched that another user wrote strictly after the
\* previous message check began and strictly before the checkpoint was
\* advanced has been reported by now, unless a call of log_event raised.
C10_Claim ==
    [][\A t \in DOMAIN tasks :
          /\ tasks[t].pc = "sleep_long"
          /\ tasks'[t].pc = "sleep_short"
          /\ \A c \in DOMAIN calls' : ~calls'[c].raised
          => \A i \in tasks'[t].scanned :
                /\ inbox[i].author # tasks[t].user
                /\ tasks[t].checked < inbox[i].ts
                /\ inbox[i].ts < last_check_timestamps[tasks[t].user]
                => Reports(calls', tasks[t].user, i) # {}]_vars

\* C11: when the route start_all returns, every account of the registry has
\* an entry in the task map and the task of that entry has not ended, also
\* when monitoring was already switched on before the call.
C11_Claim ==
    [][last'.op = "start_all" =>
          \A a \in get_all_usernames(clients') :
             /\ monitoring_tasks'[a] # 0
             /\ Alive(tasks'[monitoring_tasks'[a]])]_vars

StatusNow ==
    get_monitoring_status(M, last_check_timestamps)

\* C13: when stop_one(a) or stop_all returns, the monitor keeps neither a task
\* entry nor a checkpoint for the stopped accounts (a, or all of them), so the
\* status lists them neither as active monitors nor under last_checks.
C13_Claim ==
    [][last'.op \in {"stop_one", "stop_all"} =>
          \A a \in Accounts :
             last'.op = "stop_all" \/ last'.user = a =>
                /\ monitoring_tasks'[a] = 0
                /\ last_check_timestamps'[a] = -1
                /\ a \notin StatusNow'.active_monitors
                /\ a \notin StatusNow'.last_checks]_vars

\* The rows of webhook_events that carry an event id.
RowsOf(evs, id) == {e \in DOMAIN evs : evs[e].id = id}

\* C14: no event id is ever posted to the receiver twice, and an event whose
\* POST failed (any answer but 200) has exactly one row, with
\* webhook_sent = false, in every later state.
C14_AtMostOneAttempt ==
    /\ \A i, j \in DOMAIN posts : posts[i].id = posts[j].id => i = j
    /\ \A i \in DOMAIN posts :
          posts[i].answer \notin {"200", "pending"} =>
             /\ Cardinality(RowsOf(events, posts[i].id)) = 1
             /\ \A e \in RowsOf(events, posts[i].id) : ~events[e].webhook_sent

\* The POST of the first event was answered with 500; a second call of
\* log_event has been made since and the first event was not posted again.
C14_Witness ==
    /\ Len(calls) = 2
    /\ Len(posts) = 2
    /\ posts[1].id = 1 /\ posts[1].answer = "500"
    /\ posts[2].id = 2
    /\ \E e \in RowsOf(events, 1) : ~events[e].webhook_sent

\* C15: a row has webhook_sent = true only when the POST of its event was
\* answered with 200; after a timeout, an unreachable receiver or a 500 the
\* row has webhook_sent = false; without a webhook URL nothing is posted and
\* every row has webhook_sent = false; and a call of log_event never ends by
\* raising unless the store could not be opened: once its POST is over,
\* whatever the answer, it has returned the event id.
C15_DeliveryErrors ==
    /\ \A e \in DOMAIN events :
          events[e].webhook_sent =>
             \E i \in DOMAIN posts :
                posts[i].id = events[e].id /\ posts[i].answer = "200"
    /\ \A i \in DOMAIN posts :
          posts[i].answer \in {"500", "timeout", "unreachable"} =>
             \A e \in RowsOf(events, posts[i].id) : ~events[e].webhook_sent
    /\ ~webhook_url =>
          /\ posts = << >>
          /\ \A e \in DOMAIN events : ~events[e].webhook_sent
    /\ call.status = "raised" => calls[call.id].raised
    /\ call.status = "returned" => call.ret = call.id /\ call.id # 0

\* Two events were posted: the receiver answered one with 200 and could not
\* be reached for the other, whose call of log_event has returned its id.
C15_Witness ==
    /\ call.status = "returned" /\ call.answer = "unreachable"
    /\ call.ret = call.id
    /\ \E e \in RowsOf(events, call.id) : ~events[e].webhook_sent
    /\ \E i \in DOMAIN posts :
          /\ posts[i].answer = "200"
          /\ \E e \in RowsOf(events, posts[i].id) : events[e].webhook_sent

\* C16: a login for which the remote accepts the credentials returns success
\* and leaves the account registered whatever the store does meanwhile: its
\* handle cannot be opened, its queries raise, or its commits raise.
C16_Claim ==
    [][/\ last'.op = "login"
       /\ last'.remote \in {"ok", "ok_no_profile"}
       /\ last'.dbm \in {"open_fails", "query_fails", "commit_fails"}
       => /\ last'.success
          /\ clients'[last'.user] # NoClient]_vars

\* C17: every logout returns success and leaves the registry without the
\* account, also when the remote logout call raises and when the store cannot
\* be opened, read or written; when the store works the account's row, if it
\* has one, is inactive afterwards; no other row changes, no row disappears
\* and no credentials change.
C17_LogoutBestEffort ==
    [][last'.op = "logout" =>
          /\ last'.success
          /\ clients'[last'.user] = NoClient
          /\ \A a \in Accounts \ {last'.user} :
                clients'[a] = clients[a] /\ store'[a] = store[a]
          /\ store'[last'.user].exists = store[last'.user].exists
          /\ store'[last'.user].blob = store[last'.user].blob
          /\ last'.dbm = "up" => ~store'[last'.user].active
          /\ last'.dbm # "up" => store' = store]_vars

\* A logout has returned success after the remote logout call raised and the
\* commit of the store failed: the account is out of the registry and its row
\* is still active.
C17_Witness ==
    /\ last.op = "logout" /\ last.remote = "raise" /\ last.dbm = "commit_fails"
    /\ last.success
    /\ clients[last.user] = NoClient
    /\ store[last.user].exists /\ store[last.user].active

\* C18: the table is keyed by the account name, so an account has at most one
\* row: a login that did not read the account's row (it is inactive) and so
\* inserts a new one leaves the row as it was.  No step removes a row.  And
\* every handle registered without a remote login (by restore_all or by the
\* fast path of login) was built from a row that was active, whose stored
\* credentials it carries.
C18_StoreRows ==
    [][/\ \A a \in Accounts : store[a].exists => store'[a].exists
       /\ last'.op = "login" /\ store[last'.user].exists
             /\ ~store[last'.user].active =>
                /\ store'[last'.user] = store[last'.user]
                /\ last'.message # "Using existing session"
       /\ last'.op \in {"login", "restore"} =>
             \A a \in Accounts :
                /\ clients'[a] # clients[a]
                /\ clients'[a] # NoClient
                /\ last'.loginCalls = 0
                => /\ HasStoredSession(store, a)
                   /\ clients'[a].blob = store[a].blob]_vars

\* A login for an account whose row is inactive has succeeded with a fresh
\* handle while another account was restored from its active row earlier;
\* the inactive row is still there and was not used.
C18_Witness ==
    /\ last.op = "login" /\ last.success /\ last.loginCalls = 1
    /\ store[last.user].exists /\ ~store[last.user].active
    /\ clients[last.user].blob # store[last.user].blob
    /\ \E a \in Accounts \ {last.user} :
          /\ HasStoredSession(store, a)
          /\ clients[a] # NoClient
          /\ clients[a].blob = store[a].blob

\* C19: when login has read an active stored session and the probe of the
\* restored handle raises or returns no profile, login goes on to one fresh
\* login with the password; the handle it registers, if any, is the fresh
\* one; and the stored session has been marked inactive, which shows when
\* the store accepts writes and the fresh login fails: the row is inactive
\* when login returns.
C19_Claim ==
    [][/\ last'.op = "login"
       /\ HasStoredSession(store, last'.user)
       /\ last'.probed \in {"raise", "none"}
       => /\ last'.loginCalls = 1
          /\ last'.message # "Using existing session"
          /\ clients'[last'.user] # clients[last'.user] =>
                clients'[last'.user] = [id |-> last'.handle, blob |-> last'.handle]
          /\ last'.dbm = "up" /\ ~last'.success =>
                ~store'[last'.user].active]_vars

\* C20: a login calls the remote login operation at most once; when that
\* call is made and fails, login returns failure with the message of the
\* failure's class (wrong password, challenge required, client error; each
\* has its own), and every login that returns failure leaves the registry
\* and the handle counter as they were.
C20_FailedFreshLogin ==
    [][last'.op = "login" =>
          /\ last'.loginCalls \in {0, 1}
          /\ last'.loginCalls = 1 /\ last'.remote = "bad_password" =>
                ~last'.success /\ last'.message = "Invalid username or password"
          /\ last'.loginCalls = 1 /\ last'.remote = "challenge" =>
                ~last'.success /\ last'.message = "Challenge required"
          /\ last'.loginCalls = 1 /\ last'.remote = "client_error" =>
                ~last'.success /\ last'.message = "Instagram API error"
          /\ ~last'.success =>
                clients' = clients /\ nextId' = nextId /\ last'.handle = 0]_vars

\* A fresh login of a registered account has failed with a challenge: the
\* account is still registered.
C20_Witness ==
    /\ last.op = "login" /\ last.remote = "challenge" /\ last.loginCalls = 1
    /\ ~last.success /\ last.message = "Challenge required"
    /\ clients[last.user] # NoClient

\* C21: while the POST of a call of log_event is in flight the call holds no
\* open store handle, and when the call has ended no handle it opened is
\* still open.
C21_Claim ==
    /\ call.status = "posting" => call.db # "open"
    /\ call.status \in {"returned", "raised"} => call.db # "open"

\* C22: a stop (stop_one of the account, or stop_all) requested while the
\* account's task awaits the answer of a POST does not end the task in that
\* step: the delivery is not cut off; and whenever a task has ended, every
\* POST made on its behalf has its answer recorded.
C22_Claim ==
    [][/\ last'.op \in {"stop_one", "stop_all"} =>
             \A t \in DOMAIN tasks :
                /\ tasks[t].pc \in {"msg_post", "cmt_post"}
                /\ last'.op = "stop_all" \/ last'.user = tasks[t].user
                => Alive(tasks'[t])
       /\ \A i \in DOMAIN posts' :
             LET t == calls'[posts'[i].id].task
             IN  t \in DOMAIN tasks' /\ ~Alive(tasks'[t]) =>
                    posts'[i].answer # "pending"]_vars

\* C23: no exception ends a task: whatever its fetches and log_event do, the
\* task stays in its loop.  When a message check that got the list of
\* threads has come to its end, every thread of the list was read: its fetch
\* raised or its newest messages were fetched, whatever happened in the
\* threads before it; and every message fetched that another user wrote
\* strictly later than the checkpoint has been forwarded, unless log_event
\* raised for a message of the same thread.
C23_ThreadErrorsContained ==
    \A t \in DOMAIN tasks :
       /\ Alive(tasks[t])
       /\ monitoring_tasks[tasks[t].user] = t
       /\ tasks[t].pc = "sleep_short"
             /\ (tasks[t].scanned # {} \/ tasks[t].failed # {}) =>
             \A th \in SeqToSet(direct_threads(inbox, tasks[t].user)) :
                \/ th \in tasks[t].failed
                \/ SeqToSet(Window(inbox, tasks[t].user, th)) \subseteq tasks[t].scanned
       /\ tasks[t].pc = "sleep_short" =>
             \A i \in tasks[t].scanned :
                /\ inbox[i].author # tasks[t].user
                /\ inbox[i].ts > last_check_timestamps[tasks[t].user]
                /\ \A c \in DOMAIN calls :
                      calls[c].raised => inbox[calls[c].item].thread # inbox[i].thread
                => Reports(calls, tasks[t].user, i) # {}

\* A message check has ended in which the fetch of one thread raised (the
\* thread holds a message newer than the checkpoint and none of its messages
\* was fetched) and a newer message of the other thread was forwarded.
C23_Witness ==
    \E t \in DOMAIN tasks :
       /\ tasks[t].pc = "sleep_short"
       /\ \E i, j \in DOMAIN inbox :
             /\ inbox[i].thread \in Peers /\ inbox[j].thread \in Peers
             /\ inbox[i].thread # inbox[j].thread
             /\ inbox[i].author # tasks[t].user
             /\ inbox[i].ts > last_check_timestamps[tasks[t].user]
             /\ inbox[i].thread \in tasks[t].failed
             /\ \A k \in tasks[t].scanned : inbox[k].thread # inbox[i].thread
             /\ j \in tasks[t].scanned
             /\ inbox[j].ts > last_check_timestamps[tasks[t].user]
             /\ Reports(calls, tasks[t].user, j) # {}

\* The ticks from the start of one cycle to the start of the next.
CycleTicks == Ticks(InterCheckSleep) + Ticks(CycleSleep)

\* C24: whatever the fetches of a cycle do, a task that has begun a cycle in
\* time for the next one to begin before the clock stops either begins
\* another cycle or is stopped; and no step of a task ends it: while the
\* account is logged in and monitoring is switched on a task ends only by
\* being cancelled.
C24_RetriesNextCycle ==
    /\ [][\A t \in DOMAIN tasks :
             Alive(tasks[t]) /\ ~Alive(tasks'[t]) =>
                /\ tasks'[t].pc = "cancelled"
                /\ last'.op = "stop_one"]_vars
    /\ \A t \in 1..MaxTasks :
          \A c \in {x \in 0..MaxTime : x + CycleTicks <= MaxTime} :
             (t \in DOMAIN tasks /\ Alive(tasks[t]) /\ tasks[t].checked = c)
                ~> (t \in DOMAIN tasks
                       /\ (tasks[t].pc = "cancelled" \/ tasks[t].checked > c))

\* A task has begun its second cycle, one cycle after its first, and a fetch
\* of that cycle's message check raised; the task is asleep until the
\* comment check.
C24_Witness ==
    \E t \in DOMAIN tasks :
       /\ tasks[t].pc = "sleep_short"
       /\ tasks[t].checked >= CycleTicks
       /\ tasks[t].failed # {}
       /\ monitoring_tasks[tasks[t].user] = t

\* C25: a task whose account has left the Client Registry ends at its next
\* test of the loop condition and its account is no longer among the active
\* monitors of the status; and a task ends only because it was cancelled or
\* because its account is not in the registry.
C25_Claim ==
    [][\A t \in DOMAIN tasks :
          /\ /\ tasks[t].pc = "sleep_long"
             /\ tasks[t].user \notin get_all_usernames(clients)
             /\ tasks'[t] # tasks[t]
             /\ tasks'[t].pc # "cancelled"
             => /\ tasks'[t].pc = "done"
                /\ tasks[t].user \notin (StatusNow').active_monitors
          /\ Alive(tasks[t]) /\ ~Alive(tasks'[t]) =>
                \/ tasks'[t].pc = "cancelled"
                \/ tasks[t].user \notin get_all_usernames(clients)]_vars

\* C26: at the API layer only a failed authorization and a resource that is
\* not there give a status outside 2xx; a failed login, a remote API error
\* behind one of the client routes and a failed logout are answered with a
\* 2xx envelope whose success is false.
C26_Claim ==
    /\ last.http \notin {0, 200} =>
          \/ last.http = 403
          \/ last.http = 404 /\ get_client(clients, last.user) = NoClient
    /\ /\ last.http # 403
       /\ \/ last.op = "login" /\ ~last.success
          \/ last.op = "logout" /\ ~last.success
          \/ last.op \in ClientRoutes \cup {"reply"} /\ last.remote = "raise"
       => last.http = 200 /\ ~last.success

\* C27: when a shared secret is configured a route other than the health
\* check answers 403 to a request whose header is not the secret and leaves
\* the Client Registry, the store and the monitor as they were; a request
\* with the secret, and every request when no secret is configured, is not
\* answered 403; the health check never is.
C27_SharedSecret ==
    [][last'.op \notin {"none", "restore"} =>
          IF last'.op = "health" \/ API_KEY = "" \/ api_key_header = API_KEY
          THEN last'.http # 403
          ELSE /\ last'.http = 403
               /\ UNCHANGED <<clients, store, monVars>>]_vars

\* A secret is configured, alice is logged in and monitored, and a logout of
\* alice that did not carry the secret has been answered 403.
C27_Witness ==
    /\ API_KEY # ""
    /\ api_key_header # API_KEY
    /\ last.op = "logout" /\ last.user = "alice"
    /\ last.http = 403
    /\ get_client(clients, "alice") # NoClient
    /\ monitoring_tasks["alice"] # 0

\* C28: a task that can still perform a check is the task its account has in
\* the task map, so an account has at most one such task; a task that is not
\* in the map performs no further check and forwards nothing; and a task that
\* ends by itself leaves the map entry of every other task alone.
C28_OneLiveTask ==
    /\ [](\A t \in DOMAIN tasks :
             Alive(tasks[t]) => monitoring_tasks[tasks[t].user] = t)
    /\ [][\A t \in DOMAIN tasks :
             /\ monitoring_tasks[tasks[t].user] # t =>
                   /\ tasks'[t].checked = tasks[t].checked
                   /\ tasks'[t].scanned = tasks[t].scanned
                   /\ \A i \in DOMAIN calls' : calls'[i].task = t => i \in DOMAIN calls
             /\ Alive(tasks[t]) /\ tasks'[t].pc = "done" =>
                   \A a \in Accounts :
                      monitoring_tasks[a] \notin {0, t} =>
                         monitoring_tasks'[a] = monitoring_tasks[a]]_vars

\* alice's first task was stopped, and her second task, the one in the task
\* map, has performed a check.
C28_Witness ==
    \E t1, t2 \in DOMAIN tasks :
       /\ t1 < t2
       /\ tasks[t1].user = tasks[t2].user
       /\ tasks[t1].pc = "cancelled"
       /\ Alive(tasks[t2])
       /\ tasks[t2].checked >= 0
       /\ monitoring_tasks[tasks[t2].user] = t2

\* C29: no message or comment is forwarded to the event sink more than once
\* for an account, whatever the cycles and the stops and starts of its
\* monitoring (every item is stamped no later than the clock that fetches it).
C29_ForwardedOnce ==
    /\ \A i \in DOMAIN inbox : inbox[i].ts <= now
    /\ \A a \in Accounts : \A i \in DOMAIN inbox :
          Cardinality(Reports(calls, a, i)) <= 1

\* An item that alice's first task forwarded has been fetched again by her
\* second task, after a stop and a start, and was not forwarded again.
C29_Witness ==
    \E t \in DOMAIN tasks : \E i \in tasks[t].scanned :
       /\ tasks[t].pc \in {"sleep_short", "sleep_long"}
       /\ Cardinality(Reports(calls, tasks[t].user, i)) = 1
       /\ \A c \in Reports(calls, tasks[t].user, i) : calls[c].task < t

\* C30: the checkpoint of an account moves only when its task starts or ends
\* a cycle, and the end of a cycle in which a fetch of the message check or of
\* the comment check raised leaves the checkpoint as it was.
C30_Claim ==
    [][/\ \A a \in Accounts :
             last_check_timestamps'[a] # last_check_timestamps[a] =>
                \E t \in DOMAIN tasks :
                   /\ tasks[t].user = a
                   /\ tasks[t].pc \in {"created", "sleep_short", "cmt_post"}
                   /\ tasks'[t] # tasks[t]
       /\ \A t \in DOMAIN tasks :
             /\ tasks[t].pc \in {"sleep_short", "cmt_post"}
             /\ tasks'[t].pc = "sleep_long"
             /\ tasks[t].failed # {} \/ tasks'[t].failed # {}
             => last_check_timestamps'[tasks[t].user]
                   = last_check_timestamps[tasks[t].user]]_vars

\* C31: a POST is made only for an event whose row has been committed: every
\* event id that reached the webhook endpoint is the id of exactly one row of
\* the store, and a call of log_event whose insert was not committed made no
\* POST.
C31_PostAfterCommit ==
    /\ \A p \in DOMAIN posts : Cardinality(RowsOf(events, posts[p].id)) = 1
    /\ \A c \in DOMAIN calls :
          RowsOf(events, c) = {} => \A p \in DOMAIN posts : posts[p].id # c

\* The insert of one call failed at its commit and that call made no POST,
\* while another call committed its row and posted it.
C31_Witness ==
    \E c1, c2 \in DOMAIN calls :
       /\ ~calls[c1].raised
       /\ RowsOf(events, c1) = {}
       /\ \A p \in DOMAIN posts : posts[p].id # c1
       /\ RowsOf(events, c2) # {}
       /\ \E p \in DOMAIN posts : posts[p].id = c2
       /\ call.status = "returned"

\* C32: every account that has an entry in the task map has a task that has
\* not ended, whether start_one was called for an account without a client or
\* a task ended by itself; so start_one for an account that has no running
\* task starts one.
C32_Claim ==
    /\ [](\A a \in Accounts :
             monitoring_tasks[a] # 0 => Alive(tasks[monitoring_tasks[a]]))
    /\ [][\A a \in Accounts :
             /\ last'.op = "start_one" /\ last'.user = a
             /\ \A t \in DOMAIN tasks : tasks[t].user = a => ~Alive(tasks[t])
             => /\ Len(tasks') = Len(tasks) + 1
                /\ monitoring_tasks'[a] = Len(tasks')]_vars

\* C33: a task fetches through the client that the Client Registry holds
\* for its account at the time of the fetch: whenever a task that has slept
\* begins a message check or a comment check, the handle it uses is the
\* registered one, also after a later login has replaced the handle.
C33_Claim ==
    [][\A t \in DOMAIN tasks :
          /\ tasks[t].pc \in {"sleep_short", "sleep_long"}
          /\ tasks'[t] # tasks[t]
          /\ Alive(tasks'[t])
          => tasks[t].client = get_client(clients, tasks[t].user).id]_vars

\* C34: the routes login, logout, start_one and stop_one of an account leave
\* the monitor state of every other account as it was: its entry in the task
\* map, its checkpoint and its task.
C34_OtherAccountsUntouched ==
    [][\A a \in Accounts :
          last'.op \in {"login", "logout", "start_one", "stop_one"} /\ last'.user = a =>
             \A b \in Accounts \ {a} :
                /\ monitoring_tasks'[b] = monitoring_tasks[b]
                /\ last_check_timestamps'[b] = last_check_timestamps[b]
                /\ \A t \in DOMAIN tasks : tasks[t].user = b => tasks'[t] = tasks[t]]_vars

\* One account has just been stopped by stop_one: its task is cancelled, and
\* the task of the other account, which has performed a check, is still in
\* the task map and has not ended.
C34_Witness ==
    \E t1, t2 \in DOMAIN tasks :
       /\ last.op = "stop_one"
       /\ tasks[t1].user = last.user
       /\ tasks[t1].pc = "cancelled"
       /\ tasks[t2].user # last.user
       /\ Alive(tasks[t2])
       /\ tasks[t2].checked >= 0
       /\ monitoring_tasks[tasks[t2].user] = t2

\* C35: for an account that has a registered client, the reply route answers
\* 400 to a reply of type 'message' without thread_id, to a reply of type
\* 'comment' without comment_id and to any other reply_type, and calls
\* nothing remote.
C35_Claim ==
    /\ last.op = "reply"
    /\ last.http # 403
    /\ get_client(clients, last.user) # NoClient
    /\ last.request \in {"message_without_thread", "comment_without_id", "other"}
    => last.http = 400 /\ last.remote = "not_called"

====
